---- MODULE Spec2Model ----
(***************************************************************************)
(* A model of the core of fuuka-cata-link: the fallback extraction engine  *)
(* (src/scrapers/base.py), the TTL/size bounded result cache               *)
(* (src/utils/cache.py) and the per-user rate limiter                      *)
(* (src/bot/middlewares.py), the media downloader                          *)
(* (src/utils/media_handler.py), the message handler and response          *)
(* assembler (src/bot/handlers.py) and the link detector                   *)
(* (src/utils/link_detector.py).                                           *)
(*                                                                         *)
(* Each component has its own specification (SpecExtract, SpecCache,       *)
(* SpecRate, SpecDownload, ...) over the shared variables; Spec is their   *)
(* composition.                                                            *)
(***************************************************************************)
EXTENDS Integers, Sequences, FiniteSets, TLC

VARIABLES
    now,          \* time.monotonic(), in whole ticks
    ex_pc,        \* extract(): NotStarted | Trying | Succeeded | AllFailed | Raised
    ex_url,       \* extract(): the url argument
    ex_platform,  \* the scraper's platform property
    ex_i,         \* extract(): index into methods of the loop iteration
    ex_running,   \* the method being awaited, or None
    ex_calls,     \* history: the finished method calls, in order
    ex_ret,       \* extract(): the returned ScrapedMedia, or None
    ex_exc,       \* extract(): the exception that escaped, or None
    cache_ttl,    \* MediaCache._ttl
    cache_max,    \* MediaCache._max_size
    store,        \* MediaCache._store, in dict (insertion) order
    cache_last,   \* history: the last cache call
    cache_puts,   \* history: the keys of the puts that returned, in order
    rl_max,       \* RateLimitMiddleware._max
    rl_window,    \* RateLimitMiddleware._window
    requests,     \* RateLimitMiddleware._requests
    rl_log,       \* history: the middleware calls, in order
    rl_active,    \* the calls whose handler is suspended at a network wait
    dl_limit,     \* settings.concurrent_downloads
    dl_pc,        \* download_media(), per call: idle | running | returned | raised | cancelled
    dl_items,     \* download_media(), per call: the items argument and each _fetch task
    dl_session,   \* download_media(), per call: the aiohttp session in use
    dl_ret,       \* download_media(), per call: the returned list
    h_pc,         \* handle_media_link(): idle | extract | reference | primary | raised
    h_links,      \* handle_media_link(): the detected links still to be handled
    h_result,     \* handle_media_link(): the result of the link, <<>> before it is there
    h_reply_to,   \* _send_result(): reply_to_message_id, <<>> for None
    h_log,        \* history: the calls of _send_single_result for the link
    h_next_id,    \* the message_id the sink gives the next message it sends
    h_extracts,   \* history: the urls passed to extract for this message
    h_prev,       \* history: the urls passed to extract for earlier messages
    h_inbox,      \* the messages with supported links still to be handled
    h_exc,        \* the exception that left handle_media_link, or None
    det_pc,       \* detect_links(): ready | done
    det_text,     \* detect_links(): the text argument
    det_links,    \* detect_links(): the returned list
    det_of        \* the returned link whose url is the text, <<>> for a message's text

ex_vars == <<ex_pc, ex_url, ex_platform, ex_i, ex_running, ex_calls, ex_ret, ex_exc>>

\* Where a call of extract stands: its state, its loop index and the method
\* it awaits.
ex_position == <<ex_pc, ex_i, ex_running>>

cache_vars == <<cache_ttl, cache_max, store, cache_last, cache_puts>>

rl_vars == <<rl_max, rl_window, requests, rl_log, rl_active>>

dl_vars == <<dl_limit, dl_pc, dl_items, dl_session, dl_ret>>

\* The variables of the components other than the engine, the cache and the
\* rate limiter.
h_vars == <<h_pc, h_links, h_result, h_reply_to, h_log, h_next_id, h_extracts, h_prev,
           h_inbox, h_exc>>

det_vars == <<det_pc, det_text, det_links, det_of>>

rest_vars == <<dl_vars, h_vars, det_vars>>

\* The variables of the engine, the cache and the rate limiter, and the clock.
core_vars == <<now, ex_vars, cache_vars, rl_vars>>

\* What the actions of the downloader, of the handler and of the detector
\* leave unchanged.
not_dl == <<core_vars, h_vars, det_vars>>

not_h == <<core_vars, dl_vars, det_vars>>

not_det == <<core_vars, dl_vars, h_vars>>

vars == <<now, ex_vars, cache_vars, rl_vars, rest_vars>>

None == "None"

(***************************************************************************)
(* Bounds of the model.                                                    *)
(***************************************************************************)
MaxTime == 2

\* The cache is constructed with ttl_seconds in 0..MaxTtl and max_size in
\* 0..MaxSize, and is put to at most MaxPuts times.
MaxTtl == 1

MaxSize == 2

MaxPuts == 3

\* The rate limiter is constructed with max_requests in 1..MaxRequests and
\* window_seconds in 1..MaxWindow, and is called at most MaxCalls times.
MaxRequests == 2

MaxWindow == 2

MaxCalls == 5
\* Handlers suspended at the same time.
MaxActive == 2

Urls == {"u1", "u2", "u3"}

Platforms == {"twitter", "tiktok"}

(***************************************************************************)
(* scrapers/base.py: MediaItem, ScrapedMedia                               *)
(***************************************************************************)
MediaItem(url, media_type, data) ==
    [url |-> url, media_type |-> media_type, data |-> data]

\* referenced_post is <<>> for None and <<post>> for a post; both reference
\* fields have the dataclass defaults until a scraper sets them.
ScrapedMedia(platform, original_url, author, caption, media_items, method_used) ==
    [platform |-> platform, original_url |-> original_url, author |-> author,
     caption |-> caption, media_items |-> media_items, method_used |-> method_used,
     referenced_post |-> <<>>, reference_type |-> None]

has_media(result) == Len(result.media_items) > 0

\* The item lists an extraction method may produce: none, one item still to
\* be downloaded, one item with its bytes already present, or two items.
ItemLists ==
    { <<>>,
      <<MediaItem("http://img.jpg", "image", None)>>,
      <<MediaItem("http://vid.mp4", "video", "pre_downloaded")>>,
      <<MediaItem("http://img.jpg", "image", None),
        MediaItem("http://vid.mp4", "video", "pre_downloaded")>> }

\* What a platform's extraction method may return for url: a ScrapedMedia, as
\* the methods are annotated, whose method_used still has the dataclass default.
MethodResults(platform, url) ==
    { ScrapedMedia(platform, url, a, c, items, "unknown") :
        a \in {None, "alice"}, c \in {None, "a caption"}, items \in ItemLists }

\* What a method may raise: subclasses of Exception, a timeout among them.
Errors == {"RuntimeError", "TimeoutError", "NotImplementedError"}

(***************************************************************************)
(* scrapers/base.py: BaseScraper.extract                                   *)
(***************************************************************************)
\* A chain that starts with the headless browser.
methods_browser_first == <<"browser", "yt-dlp", "primary">>

methods == <<"primary", "yt-dlp", "browser">>

\* A narrower except clause, which lets a timeout through.
CaughtOnlyRuntime(exc) == exc \in {"RuntimeError", "NotImplementedError"}

\* except Exception as exc
Caught(exc) == exc \in {"RuntimeError", "TimeoutError", "NotImplementedError",
                        "AttributeError", "ValueError", "Exception"}

\* A stamp that names the first method whichever method returned.
StampWrongName(result, method_name) == [result EXCEPT !.method_used = methods[1]]

\* result.method_used = method_name
Stamp(result, method_name) == [result EXCEPT !.method_used = method_name]

\* A placeholder built from the dataclass defaults alone.
PlaceholderUnstamped(platform, url) ==
    ScrapedMedia(platform, url, None, None, <<>>, "unknown")

\* The result returned when every method failed.
Placeholder(platform, url) ==
    ScrapedMedia(platform, url, None, "Could not extract media from this link.",
                 <<>>, "none")

ExtractIdle ==
    /\ ex_pc = "NotStarted"
    /\ ex_url = None
    /\ ex_platform = None
    /\ ex_i = 0
    /\ ex_running = None
    /\ ex_calls = <<>>
    /\ ex_ret = None
    /\ ex_exc = None

\* extract(url) is called on the scraper of some platform.
ExtractCall(platform, url) ==
    /\ ex_pc = "NotStarted"
    /\ ex_pc' = "Trying"
    /\ ex_url' = url
    /\ ex_platform' = platform
    /\ ex_i' = 1
    /\ ex_running' = None
    /\ ex_calls' = <<>>
    /\ ex_ret' = None
    /\ ex_exc' = None
    /\ UNCHANGED <<now, cache_vars, rl_vars, rest_vars>>

\* for method_name, method in methods: ... await method(url)
InvokeMethod ==
    /\ ex_pc = "Trying"
    /\ ex_running = None
    /\ ex_i <= Len(methods)
    /\ ex_running' = methods[ex_i]
    /\ UNCHANGED <<now, cache_vars, rl_vars, rest_vars>>
    /\ UNCHANGED <<ex_pc, ex_url, ex_platform, ex_i, ex_calls, ex_ret, ex_exc>>

\* A loop that records the returned result and goes on to the next method.
MethodReturnsContinue(result) ==
    /\ ex_pc = "Trying"
    /\ ex_running # None
    /\ ex_calls' = Append(ex_calls,
                          [name |-> ex_running, outcome |-> "returned", value |-> result])
    /\ ex_running' = None
    /\ ex_i' = ex_i + 1
    /\ UNCHANGED <<now, cache_vars, rl_vars, rest_vars>>
    /\ UNCHANGED <<ex_pc, ex_url, ex_platform, ex_ret, ex_exc>>

\* A loop that takes a result without items for a failure and goes on to
\* the next method.
MethodReturnsUnlessEmpty(result) ==
    IF result.media_items = <<>>
    THEN MethodReturnsContinue(result)
    ELSE /\ ex_pc = "Trying"
         /\ ex_running # None
         /\ ex_calls' = Append(ex_calls,
                               [name |-> ex_running, outcome |-> "returned",
                                value |-> result])
         /\ ex_running' = None
         /\ ex_ret' = Stamp(result, methods[ex_i])
         /\ ex_pc' = "Succeeded"
         /\ UNCHANGED <<now, cache_vars, rl_vars, rest_vars>>
         /\ UNCHANGED <<ex_url, ex_platform, ex_i, ex_exc>>

\* The awaited method returns result: stamp it and return it.
MethodReturns(result) ==
    /\ ex_pc = "Trying"
    /\ ex_running # None
    /\ ex_calls' = Append(ex_calls,
                          [name |-> ex_running, outcome |-> "returned", value |-> result])
    /\ ex_running' = None
    /\ ex_ret' = Stamp(result, methods[ex_i])
    /\ ex_pc' = "Succeeded"
    /\ UNCHANGED <<now, cache_vars, rl_vars, rest_vars>>
    /\ UNCHANGED <<ex_url, ex_platform, ex_i, ex_exc>>

\* The awaited method raises exc: log it and go on to the next method, unless
\* the except clause does not catch it.
MethodRaises(exc) ==
    /\ ex_pc = "Trying"
    /\ ex_running # None
    /\ ex_calls' = Append(ex_calls,
                          [name |-> ex_running, outcome |-> "raised", value |-> exc])
    /\ ex_running' = None
    /\ IF Caught(exc)
          THEN /\ ex_i' = ex_i + 1
               /\ UNCHANGED <<ex_pc, ex_exc>>
          ELSE /\ ex_pc' = "Raised"
               /\ ex_exc' = exc
               /\ UNCHANGED ex_i
    /\ UNCHANGED <<now, cache_vars, rl_vars, rest_vars>>
    /\ UNCHANGED <<ex_url, ex_platform, ex_ret>>

\* The loop has run out of methods: return the placeholder.
AllMethodsFailed ==
    /\ ex_pc = "Trying"
    /\ ex_running = None
    /\ ex_i > Len(methods)
    /\ ex_ret' = Placeholder(ex_platform, ex_url)
    /\ ex_pc' = "AllFailed"
    /\ UNCHANGED <<now, cache_vars, rl_vars, rest_vars>>
    /\ UNCHANGED <<ex_url, ex_platform, ex_i, ex_running, ex_calls, ex_exc>>

\* The caller has taken the result; the scraper is ready for the next call.
ExtractDone ==
    /\ ex_pc \in {"Succeeded", "AllFailed", "Raised"}
    /\ ex_pc' = "NotStarted"
    /\ ex_url' = None
    /\ ex_platform' = None
    /\ ex_i' = 0
    /\ ex_running' = None
    /\ ex_calls' = <<>>
    /\ ex_ret' = None
    /\ ex_exc' = None
    /\ UNCHANGED <<now, cache_vars, rl_vars, rest_vars>>

\* The awaited method returns or raises.
MethodEnds ==
    \/ \E r \in MethodResults(ex_platform, ex_url) : MethodReturns(r)
    \/ \E e \in Errors : MethodRaises(e)

NextExtract ==
    \/ \E p \in Platforms, u \in Urls : ExtractCall(p, u)
    \/ InvokeMethod
    \/ \E r \in MethodResults(ex_platform, ex_url) : MethodReturns(r)
    \/ \E e \in Errors : MethodRaises(e)
    \/ AllMethodsFailed
    \/ ExtractDone

(***************************************************************************)
(* time.monotonic()                                                        *)
(***************************************************************************)
Tick ==
    /\ now < MaxTime
    /\ now' = now + 1
    /\ UNCHANGED <<ex_vars, cache_vars, rl_vars, rest_vars>>

(***************************************************************************)
(* utils/cache.py: CacheEntry, MediaCache                                  *)
(***************************************************************************)
CacheEntry(key, result, created_at) ==
    [key |-> key, result |-> result, created_at |-> created_at]

\* The results the handler may cache: a placeholder and an extracted result.
CachedResults(url) ==
    { Placeholder("twitter", url),
      Stamp(ScrapedMedia("twitter", url, "alice", "a caption",
                         <<MediaItem("http://img.jpg", "image", None)>>, "unknown"),
            "primary") }

Keys(s) == {s[i].key : i \in 1..Len(s)}

\* self._store.get(url)
Lookup(s, url) == s[CHOOSE i \in 1..Len(s) : s[i].key = url]

\* del self._store[k]
Delete(s, k) == SelectSeq(s, LAMBDA e : e.key # k)

\* self._store[url] = entry: a key already present keeps its place in the dict.
SetItem(s, url, entry) ==
    IF url \in Keys(s)
        THEN [i \in 1..Len(s) |-> IF s[i].key = url THEN entry ELSE s[i]]
        ELSE Append(s, entry)

\* An expiry test that already drops an entry exactly ttl old.
IsExpiredAtTtl(entry, t) == t - entry.created_at >= cache_ttl

\* time.monotonic() - entry.created_at > self._ttl
IsExpired(entry, t) == t - entry.created_at > cache_ttl

\* min(self._store, key=lambda k: self._store[k].created_at): the first key,
\* in dict order, among those with the smallest created_at.
OldestKey(s) ==
    s[CHOOSE i \in 1..Len(s) :
        /\ \A j \in 1..Len(s) : s[j].created_at >= s[i].created_at
        /\ \A j \in 1..(i - 1) : s[j].created_at > s[i].created_at].key

\* A loop that deletes only while the store is over the size.
RECURSIVE TrimOverSize(_, _)
TrimOverSize(s, max_size) ==
    IF Len(s) > max_size
        THEN TrimOverSize(Delete(s, OldestKey(s)), max_size)
        ELSE [store |-> s, raised |-> None]

\* while len(self._store) >= self._max_size: del self._store[oldest_key].
\* min() of an empty dict raises ValueError.
RECURSIVE Trim(_, _)
Trim(s, max_size) ==
    IF Len(s) >= max_size
        THEN IF Len(s) = 0
                THEN [store |-> s, raised |-> "ValueError"]
                ELSE Trim(Delete(s, OldestKey(s)), max_size)
        ELSE [store |-> s, raised |-> None]

\* An _evict that drops the expired entries and never trims.
EvictNoTrim(s, t) ==
    [store |-> SelectSeq(s, LAMBDA e : ~IsExpired(e, t)), raised |-> None]

\* An _evict that trims to the size and leaves the expired entries in.
EvictNoPurge(s, t) == Trim(s, cache_max)

\* _evict at time t: drop the expired entries, then trim to the size.
Evict(s, t) == Trim(SelectSeq(s, LAMBDA e : ~IsExpired(e, t)), cache_max)

\* cache_last before any call. result is <<r>> for a put of r or a get that
\* returned r, and <<>> for a get that returned None. after_put says that the
\* call before was a put of the same url that returned. trimmed holds the
\* keys of the unexpired entries the while loop of _evict deleted.
NoCall == [op |-> "init", url |-> None, result |-> <<>>,
           expired |-> FALSE, raised |-> None, after_put |-> FALSE,
           trimmed |-> {}]

\* cache_puts lists the keys put so far for as long as they are distinct and no
\* entry was dropped for its age; from then on it only counts the puts.
Voided(n) == [i \in 1..n |-> None]

IsVoid(puts) == \E i \in 1..Len(puts) : puts[i] = None

Record(puts, url, purge) ==
    IF IsVoid(puts) \/ purge \/ (\E i \in 1..Len(puts) : puts[i] = url)
        THEN Voided(Len(puts) + 1)
        ELSE Append(puts, url)

AfterPut(url) == cache_last.op = "put" /\ cache_last.url = url /\ cache_last.raised = None

CacheIdle(ttl, max_size) ==
    /\ cache_ttl = ttl
    /\ cache_max = max_size
    /\ store = <<>>
    /\ cache_last = NoCall
    /\ cache_puts = <<>>

\* A get that refreshes the entry it returns, as a least-recently-used cache
\* would.
GetTouches(url) ==
    LET held == url \in Keys(store)
        call == [op |-> "get", url |-> url, raised |-> None,
                 result  |-> IF held THEN <<Lookup(store, url).result>> ELSE <<>>,
                 expired |-> FALSE,
                 after_put |-> AfterPut(url), trimmed |-> {}]
    IN  /\ store' = IF held
                       THEN Append(Delete(store, url),
                                   CacheEntry(url, Lookup(store, url).result, now))
                       ELSE store
        /\ cache_last' = call
        /\ UNCHANGED <<cache_ttl, cache_max, cache_puts>>
        /\ UNCHANGED <<now, ex_vars, rl_vars, rest_vars>>

\* get(url) at time now; cache_last.result is what it returns.
CacheGet(url) ==
    LET held == url \in Keys(store)
        gone == held /\ IsExpired(Lookup(store, url), now)
        call == [op |-> "get", url |-> url, raised |-> None,
                 result  |-> IF held /\ ~gone THEN <<Lookup(store, url).result>> ELSE <<>>,
                 expired |-> gone,
                 after_put |-> AfterPut(url), trimmed |-> {}]
    IN  /\ store' = IF gone THEN Delete(store, url) ELSE store
        /\ cache_last' = call
        /\ cache_puts' = IF gone THEN Voided(Len(cache_puts)) ELSE cache_puts
        /\ UNCHANGED <<cache_ttl, cache_max>>
        /\ UNCHANGED <<now, ex_vars, rl_vars, rest_vars>>

\* put(url, result): _evict() reads the clock, CacheEntry() reads it again.
CachePut(url, result) ==
    /\ Len(cache_puts) < MaxPuts
    /\ \E created_at \in {now, now + 1} :
        LET ev    == Evict(store, now)
            purge == \E i \in 1..Len(store) : IsExpired(store[i], now)
            trimmed == Keys(SelectSeq(store, LAMBDA e : ~IsExpired(e, now)))
                           \ Keys(ev.store)
        IN  /\ created_at <= MaxTime
            /\ IF ev.raised # None
                  THEN /\ store' = ev.store
                       /\ cache_puts' = IF purge THEN Voided(Len(cache_puts))
                                                  ELSE cache_puts
                       /\ UNCHANGED now
                       /\ cache_last' = [op |-> "put", url |-> url,
                                         result |-> <<result>>, expired |-> purge,
                                         raised |-> ev.raised,
                                         after_put |-> AfterPut(url),
                                         trimmed |-> trimmed]
                  ELSE /\ store' = SetItem(ev.store, url,
                                           CacheEntry(url, result, created_at))
                       /\ now' = created_at
                       /\ cache_puts' = Record(cache_puts, url, purge)
                       /\ cache_last' = [op |-> "put", url |-> url,
                                         result |-> <<result>>, expired |-> purge,
                                         raised |-> None,
                                         after_put |-> AfterPut(url),
                                         trimmed |-> trimmed]
    /\ UNCHANGED <<cache_ttl, cache_max>>
    /\ UNCHANGED <<ex_vars, rl_vars, rest_vars>>

NextCache ==
    \/ Tick
    \/ \E u \in Urls : CacheGet(u)
    \/ \E u \in Urls : \E r \in CachedResults(u) : CachePut(u, r)

(***************************************************************************)
(* bot/middlewares.py: RateLimitMiddleware                                 *)
(***************************************************************************)
\* event.from_user.id, or 0 when the message has no sender
Users == {0, 7}

\* A prune that keeps a timestamp exactly window old.
PruneInclusive(ts, t) == SelectSeq(ts, LAMBDA x : t - x <= rl_window)

\* [t for t in self._requests[user_id] if now - t < self._window]
Prune(ts, t) == SelectSeq(ts, LAMBDA x : t - x < rl_window)

RateIdle(max_requests, window_seconds) ==
    /\ rl_max = max_requests
    /\ rl_window = window_seconds
    /\ requests = [u \in Users |-> <<>>]
    /\ rl_log = <<>>
    /\ rl_active = {}

\* A variant that passes every message on to the handler.
HandlerCallsAlways(allowed) == 1

\* How often __call__ invokes handler(event, data): not at all for a denied
\* message, which it drops with "return None", and once for an allowed one,
\* with "return await handler(event, data)".
HandlerCalls(allowed) == IF allowed THEN 1 ELSE 0

\* A __call__ that records the timestamp of a denied message too.
RateLimitCallRecordsDenied(user_id) ==
    LET pruned  == Prune(requests[user_id], now)
        allowed == Len(pruned) < rl_max
    IN  /\ Len(rl_log) < MaxCalls
        /\ HandlerCalls(allowed) = 1 => Cardinality(rl_active) < MaxActive
        /\ requests' = [requests EXCEPT ![user_id] = Append(pruned, now)]
        /\ rl_log' = Append(rl_log, [user |-> user_id, t |-> now, allowed |-> allowed,
                                     handled |-> HandlerCalls(allowed)])
        /\ rl_active' = IF HandlerCalls(allowed) = 1
                        THEN rl_active \cup {Len(rl_log) + 1} ELSE rl_active
        /\ UNCHANGED <<rl_max, rl_window>>
        /\ UNCHANGED <<now, ex_vars, cache_vars, rest_vars>>

\* A __call__ that records the timestamp only when the handler it awaits
\* has returned: nothing is recorded while the handler is suspended.
RateLimitCallRecordsLate(user_id) ==
    LET pruned  == Prune(requests[user_id], now)
        allowed == Len(pruned) < rl_max
    IN  /\ Len(rl_log) < MaxCalls
        /\ HandlerCalls(allowed) = 1 => Cardinality(rl_active) < MaxActive
        /\ requests' = [requests EXCEPT ![user_id] = pruned]
        /\ rl_log' = Append(rl_log, [user |-> user_id, t |-> now, allowed |-> allowed,
                                     handled |-> HandlerCalls(allowed)])
        /\ rl_active' = IF HandlerCalls(allowed) = 1
                        THEN rl_active \cup {Len(rl_log) + 1} ELSE rl_active
        /\ UNCHANGED <<rl_max, rl_window>>
        /\ UNCHANGED <<now, ex_vars, cache_vars, rest_vars>>

\* __call__ for a message of user_id at time now, from its first line to
\* its only await, "await handler(event, data)": the prune, the check and
\* the append run without a suspension point.  The log records whether the
\* message was allowed and how often the handler was invoked for it.
RateLimitCall(user_id) ==
    LET pruned  == Prune(requests[user_id], now)
        allowed == Len(pruned) < rl_max
    IN  /\ Len(rl_log) < MaxCalls
        /\ HandlerCalls(allowed) = 1 => Cardinality(rl_active) < MaxActive
        /\ requests' = [requests EXCEPT
                          ![user_id] = IF allowed THEN Append(pruned, now) ELSE pruned]
        /\ rl_log' = Append(rl_log, [user |-> user_id, t |-> now, allowed |-> allowed,
                                     handled |-> HandlerCalls(allowed)])
        /\ rl_active' = IF HandlerCalls(allowed) = 1
                        THEN rl_active \cup {Len(rl_log) + 1} ELSE rl_active
        /\ UNCHANGED <<rl_max, rl_window>>
        /\ UNCHANGED <<now, ex_vars, cache_vars, rest_vars>>

\* The handler awaited by call j returns, and with it __call__.
HandlerReturns(j) ==
    /\ j \in rl_active
    /\ rl_active' = rl_active \ {j}
    /\ UNCHANGED <<rl_max, rl_window, requests, rl_log>>
    /\ UNCHANGED <<now, ex_vars, cache_vars, rest_vars>>

NextRate ==
    \/ Tick
    \/ \E u \in Users : RateLimitCall(u)
    \/ \E j \in 1..MaxCalls : HandlerReturns(j)

(***************************************************************************)
(* utils/media_handler.py: download_media                                  *)
(***************************************************************************)
\* The calls of download_media that may be in progress at the same time
\* (one per message being handled).
Calls == {"call_a", "call_b"}

\* A call is given at most MaxItems items.
MaxItems == 3

\* The calls in progress have at most MaxTotalItems items between them.
MaxTotalItems == 3

\* settings.concurrent_downloads is configured in 1..MaxConcurrent.
MaxConcurrent == 2

max_file_size_mb == 50

_MAX_BYTES == max_file_size_mb * 1024 * 1024

\* The bodies a media server answers with, and len() of each.
Bodies == {"body_small", "body_at_limit", "body_over_limit"}

SizeOf(body) ==
    CASE body = "body_small" -> 1024
      [] body = "body_at_limit" -> _MAX_BYTES
      [] body = "body_over_limit" -> _MAX_BYTES + 1

\* What session.get, raise_for_status and read raise: an error status or a
\* connection error, and the per-item timeout.
FetchErrors == {"ClientError", "TimeoutError"}

\* The i-th item handed to the downloader: its data is absent.
UnresolvedItem(i) ==
    MediaItem("http://media/" \o ToString(i),
              IF i % 2 = 1 THEN "image" ELSE "video", None)

DownloadInputs ==
    {[i \in 1..n |-> UnresolvedItem(i)] : n \in 0..MaxItems}

\* One _fetch task: its item, where the task stands, how it ended, how often
\* it entered session.get and the length of the body it read (-1: none).
FetchTask(item) ==
    [item |-> item, st |-> "waiting", outcome |-> None, tries |-> 0, read |-> -1]

\* The permits of a call's semaphore that are taken.
Held(c) == Cardinality({i \in 1..Len(dl_items[c]) : dl_items[c][i].st = "fetching"})

\* The fetches in flight, summed over all calls.
InFlight ==
    Cardinality({<<c, i>> \in Calls \X (1..MaxItems + 1) :
                    i <= Len(dl_items[c]) /\ dl_items[c][i].st = "fetching"})

TotalItems ==
    Cardinality({<<c, i>> \in Calls \X (1..MaxItems + 1) : i <= Len(dl_items[c])})

\* A variant that takes the body as the item's data whatever its size.
SizeUnchecked(task, body) ==
    [task EXCEPT !.st = "done", !.outcome = "ok", !.read = SizeOf(body),
                 !.item.data = body]

\* _fetch after resp.read(): a body over _MAX_BYTES is dropped, any other
\* becomes the item's data.
FetchBody(task, body) ==
    IF SizeOf(body) > _MAX_BYTES
    THEN [task EXCEPT !.st = "done", !.outcome = "too_large", !.read = SizeOf(body)]
    ELSE [task EXCEPT !.st = "done", !.outcome = "ok", !.read = SizeOf(body),
                      !.item.data = body]

\* A variant that catches the timeout only.
FetchCaughtOnlyTimeout(exc) == exc = "TimeoutError"

\* "except Exception" in _fetch: every fetch error is an Exception.
FetchCaught(exc) == exc \in FetchErrors

\* The returned list: the items whose data is set, in the order of the input.
Resolved(tasks) ==
    LET items == [i \in 1..Len(tasks) |-> tasks[i].item]
    IN  SelectSeq(items, LAMBDA item : item.data # None)

\* A finally clause that closes nothing.
FinallyKeepsOpen(session) == session

\* finally: if own_session: await session.close()
Finally(session) == IF session = "own_open" THEN "own_closed" ELSE session

DownloadIdle(limit) ==
    /\ dl_limit = limit
    /\ dl_pc = [c \in Calls |-> "idle"]
    /\ dl_items = [c \in Calls |-> <<>>]
    /\ dl_session = [c \in Calls |-> None]
    /\ dl_ret = [c \in Calls |-> <<>>]

\* download_media(items, session) up to the gather: the session is created
\* when none is passed, the semaphore of this call is created, and one _fetch
\* task per item is started.
DownloadCall(c, items, own_session) ==
    /\ dl_pc[c] = "idle"
    /\ TotalItems + Len(items) <= MaxTotalItems
    /\ dl_pc' = [dl_pc EXCEPT ![c] = "running"]
    /\ dl_items' = [dl_items EXCEPT ![c] = [i \in 1..Len(items) |-> FetchTask(items[i])]]
    /\ dl_session' = [dl_session EXCEPT ![c] = IF own_session THEN "own_open" ELSE "callers_open"]
    /\ dl_ret' = [dl_ret EXCEPT ![c] = <<>>]
    /\ UNCHANGED <<dl_limit, not_dl>>

\* _fetch: "async with sem" of this call, then session.get is entered.
FetchAcquire(c, i) ==
    /\ dl_pc[c] = "running"
    /\ i \in 1..Len(dl_items[c])
    /\ dl_items[c][i].st = "waiting"
    /\ Held(c) < dl_limit
    /\ dl_items' = [dl_items EXCEPT ![c][i].st = "fetching",
                                    ![c][i].tries = @ + 1]
    /\ UNCHANGED <<dl_limit, dl_pc, dl_session, dl_ret, not_dl>>

\* _fetch: the response is read; the permit is released.
FetchCompletes(c, i, body) ==
    /\ dl_pc[c] = "running"
    /\ i \in 1..Len(dl_items[c])
    /\ dl_items[c][i].st = "fetching"
    /\ dl_items' = [dl_items EXCEPT ![c][i] = FetchBody(@, body)]
    /\ UNCHANGED <<dl_limit, dl_pc, dl_session, dl_ret, not_dl>>

\* _fetch: the request raises; the permit is released.  A caught exception
\* ends the task, any other leaves the gather and the call, whose finally
\* clause closes an own session.
FetchFails(c, i, exc) ==
    /\ dl_pc[c] = "running"
    /\ i \in 1..Len(dl_items[c])
    /\ dl_items[c][i].st = "fetching"
    /\ dl_items' = [dl_items EXCEPT ![c][i].st = "done", ![c][i].outcome = exc]
    /\ IF FetchCaught(exc)
       THEN UNCHANGED <<dl_pc, dl_session>>
       ELSE /\ dl_pc' = [dl_pc EXCEPT ![c] = "raised"]
            /\ dl_session' = [dl_session EXCEPT ![c] = Finally(@)]
    /\ UNCHANGED <<dl_limit, dl_ret, not_dl>>

\* The gather is over: an own session is closed and the resolved items are
\* returned.
DownloadReturn(c) ==
    /\ dl_pc[c] = "running"
    /\ \A i \in 1..Len(dl_items[c]) : dl_items[c][i].st = "done"
    /\ dl_pc' = [dl_pc EXCEPT ![c] = "returned"]
    /\ dl_session' = [dl_session EXCEPT ![c] = Finally(@)]
    /\ dl_ret' = [dl_ret EXCEPT ![c] = Resolved(dl_items[c])]
    /\ UNCHANGED <<dl_limit, dl_items, not_dl>>

\* The task that awaits the call is cancelled while the gather is pending:
\* the gather cancels every _fetch task that has not ended, CancelledError
\* is raised inside each of them (a waiting one leaves the queue of the
\* semaphore, a fetching one leaves "async with session.get" and "async with
\* sem", which releases its permit; "except Exception" does not catch it),
\* then the finally clause runs and CancelledError leaves the call.
DownloadCancel(c) ==
    /\ dl_pc[c] = "running"
    /\ dl_pc' = [dl_pc EXCEPT ![c] = "cancelled"]
    /\ dl_items' = [dl_items EXCEPT ![c] =
                       [i \in 1..Len(@) |->
                           IF @[i].st = "done" THEN @[i]
                           ELSE [@[i] EXCEPT !.st = "done", !.outcome = "CancelledError"]]]
    /\ dl_session' = [dl_session EXCEPT ![c] = Finally(@)]
    /\ UNCHANGED <<dl_limit, dl_ret, not_dl>>

\* The caller has taken the result; the call's frame is gone.
DownloadDone(c) ==
    /\ dl_pc[c] \in {"returned", "raised", "cancelled"}
    /\ dl_pc' = [dl_pc EXCEPT ![c] = "idle"]
    /\ dl_items' = [dl_items EXCEPT ![c] = <<>>]
    /\ dl_session' = [dl_session EXCEPT ![c] = None]
    /\ dl_ret' = [dl_ret EXCEPT ![c] = <<>>]
    /\ UNCHANGED <<dl_limit, not_dl>>

NextDownload ==
    \/ \E c \in Calls, items \in DownloadInputs, own_session \in BOOLEAN :
           DownloadCall(c, items, own_session)
    \/ \E c \in Calls, i \in 1..MaxItems : FetchAcquire(c, i)
    \/ \E c \in Calls, i \in 1..MaxItems, body \in Bodies : FetchCompletes(c, i, body)
    \/ \E c \in Calls, i \in 1..MaxItems, exc \in FetchErrors : FetchFails(c, i, exc)
    \/ \E c \in Calls : DownloadReturn(c)
    \/ \E c \in Calls : DownloadCancel(c)
    \/ \E c \in Calls : DownloadDone(c)

(***************************************************************************)
(* utils/formatters.py: format_caption, format_text_post, truncate         *)
(***************************************************************************)
\* The longest caption a scraper returns in this model.
MaxCaptionLen == 5000

\* truncate's default max_len, the limit of a media caption.
CaptionLimit == 1024

\* The limit of a text message.
TextLimit == 4096

\* len() of the strings of this model; "long caption" stands for a caption
\* of MaxCaptionLen characters.
StrLen(s) ==
    CASE s = "long caption" -> MaxCaptionLen
      [] s = "a caption" -> 9
      [] s = "alice" -> 5
      [] s = "bob" -> 3
      [] s = "(no content)" -> 12
      [] s = "Could not download media from this link." -> 40
      [] s = "Could not extract media from this link." -> 39
      [] OTHER -> 20

\* The parts a text is joined from: <<"author", a>> is "a:", <<"caption", c>>
\* is c, <<"link", u>> is the anchor '\n<a href="u">Link</a>', <<"str", s>> is s.
PartLen(part) ==
    CASE part[1] = "author" -> StrLen(part[2]) + 1
      [] part[1] = "link" -> StrLen(part[2]) + 20
      [] OTHER -> StrLen(part[2])

RECURSIVE SumLen(_)
SumLen(parts) ==
    IF parts = <<>> THEN 0 ELSE PartLen(Head(parts)) + SumLen(Tail(parts))

\* "\n".join(parts): a text is its parts, its length, and how many of its
\* own characters it keeps (all of them until it is truncated).
Join(parts) ==
    LET n == SumLen(parts) + (Len(parts) - 1)
    IN  [parts |-> parts, len |-> n, kept |-> n]

\* Python's truth value of an optional string.
Truthy(s) == s # None /\ s # ""

AuthorCaptionParts(result) ==
    (IF Truthy(result.author) THEN << <<"author", result.author>> >> ELSE <<>>)
        \o (IF Truthy(result.caption) THEN << <<"caption", result.caption>> >> ELSE <<>>)

format_caption(result) ==
    LET parts == AuthorCaptionParts(result)
                     \o (IF has_media(result)
                         THEN << <<"link", result.original_url>> >> ELSE <<>>)
    IN  IF parts # <<>> THEN Join(parts) ELSE Join(<< <<"str", result.original_url>> >>)

format_text_post(result) ==
    LET parts == AuthorCaptionParts(result)
    IN  IF parts # <<>> THEN Join(parts) ELSE Join(<< <<"str", "(no content)">> >>)

\* text[: max_len - 3] + "..." when the text is longer than max_len.
truncate(text, max_len) ==
    IF text.len <= max_len
    THEN text
    ELSE [text EXCEPT !.len = max_len, !.kept = max_len - 3]

(***************************************************************************)
(* bot/handlers.py: handle_media_link, _send_result, _send_single_result   *)
(***************************************************************************)
\* A message carries at most MaxLinks links; MaxMessages messages are handled.
MaxLinks == 2

MaxMessages == 2

\* Results carry every list of at most MaxResultItems items, each with its
\* data present or absent, and one list longer than a media group.
MaxResultItems == 2

\* "Telegram allows max 10 in a group"
MaxGroup == 10

\* message.message_id of the message being handled.
TriggerId == 100

\* The url of a post for which extract may return any result of the model,
\* and the urls of posts for which it returns one of a few simple results.
FullUrl == "u3"

SimpleUrls == {"u1", "u2"}

DetectedLink(url, platform, is_spoiler) ==
    [url |-> url, platform |-> platform, is_spoiler |-> is_spoiler]

\* detected_links: at most MaxLinks links, of distinct urls.
LinkLists(urls) ==
    {links \in UNION {[1..n -> {DetectedLink(u, "twitter", sp) :
                                    u \in urls, sp \in BOOLEAN}] :
                      n \in 1..MaxLinks} :
        \A i, j \in 1..Len(links) : i # j => links[i].url # links[j].url}

\* At most MaxMessages messages.
Inboxes(urls) == UNION {[1..n -> LinkLists(urls)] : n \in 1..MaxMessages}

\* The i-th item of a result with its bytes already present.
ResolvedItem(i) == [UnresolvedItem(i) EXCEPT !.data = "pre_downloaded"]

ItemsOfShape(present, n) ==
    [i \in 1..n |-> IF present[i] THEN ResolvedItem(i) ELSE UnresolvedItem(i)]

\* MaxGroup + 1 items, the first and the last still to be downloaded.
OverflowItems ==
    [i \in 1..MaxGroup + 1 |->
        IF i \in {1, MaxGroup + 1} THEN UnresolvedItem(i) ELSE ResolvedItem(i)]

\* MaxGroup + 1 items with their bytes present.
OverflowResolved == [i \in 1..MaxGroup + 1 |-> ResolvedItem(i)]

HandlerItemLists ==
    UNION {{ItemsOfShape(present, n) : present \in [1..n -> BOOLEAN]} :
           n \in 0..MaxResultItems}
        \cup {OverflowItems, OverflowResolved}

HandlerTexts == {<<None, None>>, <<"alice", "a caption">>, <<"alice", "long caption">>}

\* result.referenced_post = self._parse_tweet(...)
WithReference(result, post, reference_type) ==
    [result EXCEPT !.referenced_post = <<post>>, !.reference_type = reference_type]

\* What scraper.extract(link.url) returns to the handler: the stamped result
\* of a method, with or without a referenced post, or the placeholder.
FullOutcomes(platform, url) ==
    LET posts == {Stamp(ScrapedMedia(platform, url, t[1], t[2], items, "unknown"),
                        "primary") :
                     t \in HandlerTexts, items \in HandlerItemLists}
        refs == {ScrapedMedia(platform, "ref_of_" \o url, "bob", "a caption",
                              items, "unknown") : items \in HandlerItemLists}
    IN  posts \cup {WithReference(p, r, "quote") : p \in posts, r \in refs}
              \cup {Placeholder(platform, url)}

\* The simple results: a post of one item still to be downloaded, a text
\* post that quotes a text post, and the placeholder.
SimpleOutcomes(platform, url) ==
    LET post(items) == Stamp(ScrapedMedia(platform, url, "alice", "a caption", items,
                                          "unknown"), "primary")
        ref == ScrapedMedia(platform, "ref_of_" \o url, "bob", "a caption", <<>>,
                            "unknown")
    IN  {post(<<UnresolvedItem(1)>>), WithReference(post(<<>>), ref, "quote"),
         Placeholder(platform, url)}

ExtractOutcomes(platform, url) ==
    IF url = FullUrl THEN FullOutcomes(platform, url) ELSE SimpleOutcomes(platform, url)

\* How the fetch of one item ends for the handler: a body within the ceiling
\* or over it is read, or the request raises.
FetchOutcomes == {"body_small", "body_over_limit", "ClientError"}

\* download_media(items) as one step, each fetch ending as outcome says:
\* whether an exception left the call, and the list returned otherwise.
DownloadMedia(items, outcome) ==
    LET tasks == [i \in 1..Len(items) |->
                    IF outcome[i] \in Bodies
                    THEN FetchBody([FetchTask(items[i]) EXCEPT !.tries = 1], outcome[i])
                    ELSE [FetchTask(items[i]) EXCEPT !.st = "done", !.tries = 1,
                                                     !.outcome = outcome[i]]]
    IN  [raised |-> \E i \in 1..Len(items) :
                        outcome[i] \in FetchErrors /\ ~FetchCaught(outcome[i]),
         ret |-> Resolved(tasks)]

\* A variant that hands every item to the downloader.
items_all(result) == result.media_items

items_needing_download(result) ==
    SelectSeq(result.media_items, LAMBDA item : item.data = None)

items_already_downloaded(result) ==
    SelectSeq(result.media_items, LAMBDA item : item.data # None)

\* ReplyParameters(message_id=reply_to_message_id) if reply_to_message_id
\* else None; <<>> is None.
ReplyParams(reply_to_message_id) ==
    IF reply_to_message_id # <<>> /\ reply_to_message_id[1] # 0
    THEN reply_to_message_id ELSE <<>>

\* A call of the sink: the method of Message, its text (<<>> when it has
\* none), its media and its reply_parameters.
SinkCall(method, text, media, reply_parameters) ==
    [method |-> method, text |-> text, media |-> media,
     reply_parameters |-> reply_parameters]

\* InputMediaVideo / InputMediaPhoto, and the file of reply_video / reply_photo.
InputMedia(item, caption, has_spoiler) ==
    [type |-> IF item.media_type = "video" THEN "video" ELSE "photo",
     item |-> item, caption |-> caption, has_spoiler |-> has_spoiler]

\* The text post of a result without media.
TextCall(result, reply_params) ==
    LET text == truncate(format_text_post(result), TextLimit)
    IN  IF reply_params # <<>>
        THEN SinkCall("answer", <<text>>, <<>>, reply_params)
        ELSE SinkCall("reply", <<text>>, <<>>, <<>>)

CouldNotDownloadCall ==
    SinkCall("reply", <<Join(<< <<"str", "Could not download media from this link.">> >>)>>,
             <<>>, <<>>)

\* The single media item: reply_video or reply_photo.
SingleCall(item, caption, has_spoiler) ==
    SinkCall(IF item.media_type = "video" THEN "reply_video" ELSE "reply_photo",
             <<>>, <<InputMedia(item, <<caption>>, has_spoiler)>>, <<>>)

\* A variant that puts every item into the group.
GroupUncapped(downloaded) == downloaded

\* downloaded[:10]
GroupItems(downloaded) == SubSeq(downloaded, 1, IF Len(downloaded) < MaxGroup
                                                 THEN Len(downloaded) ELSE MaxGroup)

\* The media group: the caption on the first item only.
GroupCall(downloaded, caption, has_spoiler, reply_params) ==
    LET group == GroupItems(downloaded)
        media == [i \in 1..Len(group) |->
                    InputMedia(group[i], IF i = 1 THEN <<caption>> ELSE <<>>, has_spoiler)]
    IN  IF reply_params # <<>>
        THEN SinkCall("answer_media_group", <<>>, media, reply_params)
        ELSE SinkCall("reply_media_group", <<>>, media, <<>>)

\* What _send_single_result returns after a delivery of n resolved items,
\* n > 0: nothing for a single item, sent[0] for a group.
ReturnOfMedia(n) == IF n = 1 THEN "none" ELSE "message"

\* _send_single_result up to its call of the sink, the fetches ending as
\* outcome says: the items handed to the downloader (and whether it was
\* called), the resolved items, the call of the sink (<<>> when the download
\* raised) and what is returned once the sink has answered.
SendSingle(result, reply_to_message_id, has_spoiler, outcome) ==
    LET reply_params == ReplyParams(reply_to_message_id)
        needing == items_needing_download(result)
        already == items_already_downloaded(result)
        dl == IF needing # <<>> THEN DownloadMedia(needing, outcome)
              ELSE [raised |-> FALSE, ret |-> <<>>]
        downloaded == already \o dl.ret
        caption == truncate(format_caption(result), CaptionLimit)
        none == [submitted |-> <<>>, download_called |-> FALSE, raised |-> FALSE,
                 downloaded |-> <<>>, call |-> <<>>, returns |-> "none"]
    IN  IF ~has_media(result)
        THEN [none EXCEPT !.call = <<TextCall(result, reply_params)>>,
                          !.returns = "message"]
        ELSE LET base == [none EXCEPT !.submitted = needing,
                                      !.download_called = (needing # <<>>)]
             IN  IF dl.raised
                 THEN [base EXCEPT !.raised = TRUE]
                 ELSE IF downloaded = <<>>
                 THEN [base EXCEPT !.call = <<CouldNotDownloadCall>>]
                 ELSE IF Len(downloaded) = 1
                 THEN [base EXCEPT !.downloaded = downloaded,
                                   !.call = <<SingleCall(downloaded[1], caption, has_spoiler)>>,
                                   !.returns = ReturnOfMedia(1)]
                 ELSE [base EXCEPT !.downloaded = downloaded,
                                   !.call = <<GroupCall(downloaded, caption, has_spoiler,
                                                        reply_params)>>,
                                   !.returns = ReturnOfMedia(Len(downloaded))]

\* The message a call of the sink replies to: message.reply* replies to the
\* message being handled, message.answer* to the one its reply_parameters name.
ReplyTarget(call) ==
    IF call.method \in {"answer", "answer_media_group"}
    THEN call.reply_parameters[1] ELSE TriggerId

\* What the sink does with a call: it sends the message or raises.
SinkAnswers == {"sent", "TelegramAPIError"}

\* One step of the handler's log: which result of the link was sent, what
\* _send_single_result did, how the fetches ended, how the sink answered, the
\* id of the message sent (0 when none was) and the id returned to
\* _send_result (<<>> for None).
LogEntry(role, s, outcome, answer, id, returned) ==
    [role |-> role, has_spoiler |-> Head(h_links).is_spoiler,
     submitted |-> s.submitted, download_called |-> s.download_called,
     fetched |-> IF s.download_called THEN outcome ELSE <<>>,
     downloaded |-> s.downloaded, call |-> s.call, answer |-> answer, id |-> id,
     returned |-> returned]

HandlerIdle(inbox) ==
    /\ h_pc = "idle"
    /\ h_inbox = inbox
    /\ h_links = <<>>
    /\ h_result = <<>>
    /\ h_reply_to = <<>>
    /\ h_log = <<>>
    /\ h_next_id = TriggerId + 1
    /\ h_extracts = <<>>
    /\ h_prev = {}
    /\ h_exc = None

\* handle_media_link(message, detected_links) is entered; the handling of
\* the message before is over, with or without an exception.
HandleMessage ==
    /\ h_pc \in {"idle", "raised"}
    /\ h_inbox # <<>>
    /\ h_inbox' = Tail(h_inbox)
    /\ h_pc' = "extract"
    /\ h_links' = Head(h_inbox)
    /\ h_result' = <<>>
    /\ h_reply_to' = <<>>
    /\ h_log' = <<>>
    /\ h_next_id' = TriggerId + 1
    /\ h_prev' = h_prev \cup {h_extracts[i] : i \in 1..Len(h_extracts)}
    /\ h_extracts' = <<>>
    /\ h_exc' = None
    /\ UNCHANGED <<not_h>>

\* result = await scraper.extract(link.url) for the next link, and
\* _send_result up to its first call of _send_single_result.
HandlerExtract(result) ==
    /\ h_pc = "extract"
    /\ h_extracts' = Append(h_extracts, Head(h_links).url)
    /\ h_result' = <<result>>
    /\ h_reply_to' = <<>>
    /\ h_log' = <<>>
    /\ h_pc' = IF result.referenced_post # <<>> THEN "reference" ELSE "primary"
    /\ UNCHANGED <<h_links, h_next_id, h_prev, h_inbox, h_exc, not_h>>

\* The number of messages a call of the sink sends.
Sends(call) == IF call.media = <<>> THEN 1 ELSE Len(call.media)

\* One call of _send_single_result, with the fetches ending as outcome says
\* and the sink answering as answer says; role is "reference" or "primary",
\* after is the handler's position when the call returns.
SendStep(role, result, reply_to_message_id, outcome, answer, after) ==
    LET s == SendSingle(result, reply_to_message_id, Head(h_links).is_spoiler, outcome)
    IN  IF s.raised
        THEN /\ h_log' = Append(h_log, LogEntry(role, s, outcome, None, 0, <<>>))
             /\ h_pc' = "raised"
             /\ h_exc' = "FetchError"
             /\ UNCHANGED <<h_next_id, h_reply_to, h_links>>
        ELSE IF answer # "sent"
        THEN /\ h_log' = Append(h_log, LogEntry(role, s, outcome, answer, 0, <<>>))
             /\ h_pc' = "raised"
             /\ h_exc' = answer
             /\ UNCHANGED <<h_next_id, h_reply_to, h_links>>
        ELSE LET returned == IF s.returns = "message" THEN <<h_next_id>> ELSE <<>>
             IN  /\ h_log' = Append(h_log, LogEntry(role, s, outcome, answer, h_next_id, returned))
                 /\ h_next_id' = h_next_id + Sends(s.call[1])
                 /\ h_exc' = None
                 /\ IF role = "reference"
                    THEN /\ h_reply_to' = returned
                         /\ h_pc' = after
                         /\ UNCHANGED h_links
                    ELSE /\ h_links' = Tail(h_links)
                         /\ h_pc' = IF Tail(h_links) = <<>> THEN "idle" ELSE after
                         /\ UNCHANGED h_reply_to

\* _send_result: ref_msg = await _send_single_result(message,
\* result.referenced_post, has_spoiler=...), and reply_to_message_id is set
\* when ref_msg is not None.
SendReference(outcome, answer) ==
    /\ h_pc = "reference"
    /\ outcome \in [1..Len(items_needing_download(h_result[1].referenced_post[1]))
                       -> FetchOutcomes]
    /\ SendStep("reference", h_result[1].referenced_post[1], <<>>, outcome, answer,
                "primary")
    /\ UNCHANGED <<h_result, h_extracts, h_prev, h_inbox, not_h>>

\* _send_result: await _send_single_result(message, result,
\* reply_to_message_id=..., has_spoiler=...), and the loop of
\* handle_media_link goes to the next link.
SendPrimary(outcome, answer) ==
    /\ h_pc = "primary"
    /\ outcome \in [1..Len(items_needing_download(h_result[1])) -> FetchOutcomes]
    /\ SendStep("primary", h_result[1], h_reply_to, outcome, answer, "extract")
    /\ UNCHANGED <<h_result, h_extracts, h_prev, h_inbox, not_h>>

NextHandler ==
    \/ HandleMessage
    \/ /\ h_pc = "extract"
       /\ \E result \in ExtractOutcomes(Head(h_links).platform, Head(h_links).url) :
              HandlerExtract(result)
    \/ \E outcome \in UNION {[1..n -> FetchOutcomes] : n \in 0..MaxResultItems},
          answer \in SinkAnswers : SendReference(outcome, answer)
    \/ \E outcome \in UNION {[1..n -> FetchOutcomes] : n \in 0..MaxResultItems},
          answer \in SinkAnswers : SendPrimary(outcome, answer)

(***************************************************************************)
(* utils/link_detector.py: detect_links, _clean_url                        *)
(***************************************************************************)
\* A text has at most MaxWords words.
MaxWords == 2

\* The platforms of this model, in the order of _PLATFORM_PATTERNS.
PatternOrder == <<"twitter", "tiktok", "reddit">>

\* A string is a sequence of tokens.  <<"base", p>> is the shortest text the
\* pattern of platform p matches (scheme, host and path, for twitter up to
\* the digits of the status); <<"punct", c>> is the character c, one of
\* those rstrip removes; <<"param", k, v>> is "?k=v", or "&k=v" after
\* another parameter; <<"word">> is a word that no pattern matches.
BaseToken(platform) == <<"base", platform>>

PunctToken(c) == <<"punct", c>>

ParamToken(k, v) == <<"param", k, v>>

\* The query strings written after a url: none, a tracking parameter, a
\* parameter of the page, both, a key given twice around another key, and a
\* parameter without value.
Queries ==
    { <<>>,
      <<ParamToken("utm_source", "share")>>,
      <<ParamToken("x", "1")>>,
      <<ParamToken("utm_source", "share"), ParamToken("x", "1")>>,
      <<ParamToken("x", "1"), ParamToken("y", "2"), ParamToken("x", "3")>>,
      <<ParamToken("x", "")>> }

\* A url as it occurs in a text: the base, a path that may end in a
\* punctuation character, a query string, and punctuation after it.
Occurrences ==
    { <<BaseToken(p)>> \o mid \o query \o end :
        p \in {PatternOrder[i] : i \in 1..Len(PatternOrder)},
        mid \in {<<>>, <<PunctToken(")")>>},
        query \in Queries,
        end \in {<<>>, <<PunctToken(".")>>} }

Words == Occurrences \cup { << <<"word">> >> }

\* The texts: words separated by white space.
Texts == UNION {[1..n -> Words] : n \in 0..MaxWords}

\* The platform whose pattern matches inside the word, or None.
PlatformOf(word) == IF word[1][1] = "base" THEN word[1][2] ELSE None

\* match.group(0) for the platform's pattern in a word of that platform:
\* the twitter pattern ends with the digits of the status, the others take
\* every character up to the white space.
MatchGroup(word, platform) ==
    IF platform = "twitter" THEN <<word[1]>> ELSE word

\* url.rstrip(".,;:!?)\"'")
RECURSIVE rstrip(_)
rstrip(url) ==
    IF url # <<>> /\ url[Len(url)][1] = "punct"
    THEN rstrip(SubSeq(url, 1, Len(url) - 1))
    ELSE url

\* not k.startswith("utm_") and k not in ("share", "context")
KeptKey(k) == k \notin {"utm_source", "utm_medium", "utm_campaign", "share", "context"}

\* parsed.query: the parameters of the url.
QueryOf(url) == SelectSeq(url, LAMBDA tok : tok[1] = "param")

\* The url without its query.
PathOf(url) == SelectSeq(url, LAMBDA tok : tok[1] # "param")

\* The keys of parse_qs(query), in the order of their first occurrence;
\* parameters with a blank value are left out by parse_qs.
RECURSIVE KeysInOrder(_, _)
KeysInOrder(query, seen) ==
    IF query = <<>> THEN <<>>
    ELSE LET k == Head(query)[2]
         IN  IF Head(query)[3] = "" \/ k \in seen
             THEN KeysInOrder(Tail(query), seen)
             ELSE <<k>> \o KeysInOrder(Tail(query), seen \cup {k})

\* urlencode(clean_query, doseq=True): for each kept key, in order, every
\* value of that key.
RECURSIVE Regroup(_, _)
Regroup(keys, query) ==
    IF keys = <<>> THEN <<>>
    ELSE SelectSeq(query, LAMBDA tok : tok[2] = Head(keys) /\ tok[3] # "")
             \o Regroup(Tail(keys), query)

_clean_url(url, platform) ==
    IF platform = "reddit"
    THEN LET keys == SelectSeq(KeysInOrder(QueryOf(url), {}), KeptKey)
         IN  PathOf(url) \o Regroup(keys, QueryOf(url))
    ELSE IF platform = "tiktok"
    THEN PathOf(url)
    ELSE url

\* The url recorded for a word matched by the platform's pattern.
Normalized(word, platform) == _clean_url(rstrip(MatchGroup(word, platform)), platform)

\* if url not in seen_urls: seen_urls.add(url); results.append(...)
AppendUnseen(results, link) ==
    IF \E i \in 1..Len(results) : results[i].url = link.url
    THEN results ELSE Append(results, link)

\* The inner loop of detect_links: the matches of one pattern, in the order
\* of the text.
RECURSIVE ScanWords(_, _, _)
ScanWords(text, platform, results) ==
    IF text = <<>> THEN results
    ELSE ScanWords(Tail(text), platform,
                   IF PlatformOf(Head(text)) = platform
                   THEN AppendUnseen(results,
                                     DetectedLink(Normalized(Head(text), platform),
                                                  platform, FALSE))
                   ELSE results)

\* The outer loop of detect_links: the patterns, in their order.
RECURSIVE ScanPatterns(_, _, _)
ScanPatterns(text, patterns, results) ==
    IF patterns = <<>> THEN results
    ELSE ScanPatterns(text, Tail(patterns), ScanWords(text, Head(patterns), results))

detect_links(text) == ScanPatterns(text, PatternOrder, <<>>)

DetectIdle(text) ==
    /\ det_pc = "ready"
    /\ det_text = text
    /\ det_links = <<>>
    /\ det_of = <<>>

\* detect_links(text) is called and returns.
DetectCall ==
    /\ det_pc = "ready"
    /\ det_pc' = "done"
    /\ det_links' = detect_links(det_text)
    /\ UNCHANGED <<det_text, det_of, not_det>>

\* detect_links(link.url) is called for the k-th link the call returned, and
\* returns.
DetectOwnOutput(k) ==
    /\ det_pc = "done"
    /\ det_of = <<>>
    /\ k \in 1..Len(det_links)
    /\ det_of' = <<det_links[k]>>
    /\ det_text' = <<det_links[k].url>>
    /\ det_links' = detect_links(<<det_links[k].url>>)
    /\ UNCHANGED <<det_pc, not_det>>

NextDetect ==
    \/ DetectCall
    \/ \E k \in 1..MaxWords : DetectOwnOutput(k)

(***************************************************************************)
(* Specifications                                                          *)
(***************************************************************************)
InitExtract ==
    /\ now = 0
    /\ ExtractIdle
    /\ CacheIdle(MaxTtl, MaxSize)
    /\ RateIdle(MaxRequests, MaxWindow)
    /\ DownloadIdle(MaxConcurrent)
    /\ HandlerIdle(<<>>)
    /\ DetectIdle(<<>>)

InitCache ==
    /\ now = 0
    /\ ExtractIdle
    /\ \E ttl \in 0..MaxTtl, max_size \in 0..MaxSize : CacheIdle(ttl, max_size)
    /\ RateIdle(MaxRequests, MaxWindow)
    /\ DownloadIdle(MaxConcurrent)
    /\ HandlerIdle(<<>>)
    /\ DetectIdle(<<>>)

InitRate ==
    /\ now = 0
    /\ ExtractIdle
    /\ CacheIdle(MaxTtl, MaxSize)
    /\ \E m \in 1..MaxRequests, w \in 1..MaxWindow : RateIdle(m, w)
    /\ DownloadIdle(MaxConcurrent)
    /\ HandlerIdle(<<>>)
    /\ DetectIdle(<<>>)

InitDownload ==
    /\ now = 0
    /\ ExtractIdle
    /\ CacheIdle(MaxTtl, MaxSize)
    /\ RateIdle(MaxRequests, MaxWindow)
    /\ \E limit \in 1..MaxConcurrent : DownloadIdle(limit)
    /\ HandlerIdle(<<>>)
    /\ DetectIdle(<<>>)

\* One message with one link, to a post of any result.
InitSend ==
    /\ now = 0
    /\ ExtractIdle
    /\ CacheIdle(MaxTtl, MaxSize)
    /\ RateIdle(MaxRequests, MaxWindow)
    /\ DownloadIdle(MaxConcurrent)
    /\ \E sp \in BOOLEAN : HandlerIdle(<< <<DetectedLink(FullUrl, "twitter", sp)>> >>)
    /\ DetectIdle(<<>>)

\* Messages with links to posts of simple results.
InitHandler ==
    /\ now = 0
    /\ ExtractIdle
    /\ CacheIdle(MaxTtl, MaxSize)
    /\ RateIdle(MaxRequests, MaxWindow)
    /\ DownloadIdle(MaxConcurrent)
    /\ \E inbox \in Inboxes(SimpleUrls) : HandlerIdle(inbox)
    /\ DetectIdle(<<>>)

InitDetect ==
    /\ now = 0
    /\ ExtractIdle
    /\ CacheIdle(MaxTtl, MaxSize)
    /\ RateIdle(MaxRequests, MaxWindow)
    /\ DownloadIdle(MaxConcurrent)
    /\ HandlerIdle(<<>>)
    /\ \E text \in Texts : DetectIdle(text)

Init ==
    /\ now = 0
    /\ ExtractIdle
    /\ \E ttl \in 0..MaxTtl, max_size \in 0..MaxSize : CacheIdle(ttl, max_size)
    /\ \E m \in 1..MaxRequests, w \in 1..MaxWindow : RateIdle(m, w)
    /\ \E limit \in 1..MaxConcurrent : DownloadIdle(limit)
    /\ \E inbox \in Inboxes(SimpleUrls \cup {FullUrl}) : HandlerIdle(inbox)
    /\ \E text \in Texts : DetectIdle(text)

Next == NextExtract \/ NextCache \/ NextRate \/ NextDownload \/ NextHandler \/ NextDetect

SpecExtract == InitExtract /\ [][NextExtract]_vars

SpecCache == InitCache /\ [][NextCache]_vars

SpecRate == InitRate /\ [][NextRate]_vars

SpecDownload == InitDownload /\ [][NextDownload]_vars

SpecSend == InitSend /\ [][NextHandler]_vars

SpecHandler == InitHandler /\ [][NextHandler]_vars

SpecDetect == InitDetect /\ [][NextDetect]_vars

Spec == Init /\ [][Next]_vars

(***************************************************************************)
(* Properties of BaseScraper.extract                                       *)
(***************************************************************************)
\* The methods invoked so far in this call of extract, the running one included.
Invoked == [i \in 1..Len(ex_calls) |-> ex_calls[i].name]
               \o (IF ex_running = None THEN <<>> ELSE <<ex_running>>)

\* C1: once a method has returned, no later method is invoked; when the first
\* method returns, extract has succeeded with only "primary" invoked and the
\* result's method_used is "primary".
C1_NoMethodAfterSuccess ==
    /\ \A j \in 1..Len(ex_calls) :
         ex_calls[j].outcome = "returned" =>
            /\ j = Len(Invoked)
            /\ ex_pc = "Succeeded"
    /\ (Len(ex_calls) >= 1 /\ ex_calls[1].outcome = "returned") =>
            /\ Invoked = <<"primary">>
            /\ ex_ret.method_used = methods[1]

C1_Witness ==
    /\ ex_pc = "Succeeded"
    /\ Len(ex_calls) = 1
    /\ ex_calls[1].name = "primary"

\* C2: when methods 1..k-1 raised and method k returned, extract returns what
\* method k produced (items, author, caption, platform and url) with
\* method_used set to the name of method k.
C2_ResultOfFirstSuccess ==
    LET k == Len(ex_calls) IN
    /\ (k >= 1 /\ ex_calls[k].outcome = "returned") => ex_pc = "Succeeded"
    /\ ex_pc = "Succeeded" =>
         /\ k \in 1..Len(methods)
         /\ \A j \in 1..(k - 1) :
              ex_calls[j].name = methods[j] /\ ex_calls[j].outcome = "raised"
         /\ ex_calls[k].name = methods[k]
         /\ ex_calls[k].outcome = "returned"
         /\ ex_ret.media_items = ex_calls[k].value.media_items
         /\ ex_ret.author = ex_calls[k].value.author
         /\ ex_ret.caption = ex_calls[k].value.caption
         /\ ex_ret.platform = ex_calls[k].value.platform
         /\ ex_ret.original_url = ex_calls[k].value.original_url
         /\ ex_ret.method_used = methods[k]

C2_Witness ==
    /\ ex_pc = "Succeeded"
    /\ Len(ex_calls) = Len(methods)
    /\ ex_calls[1].value = "TimeoutError"
    /\ Len(ex_ret.media_items) = 2
    /\ ex_ret.author = "alice"

\* C3: when every method of the chain has raised, extract returns the
\* placeholder: no items, method_used "none", the fixed non-empty caption, and
\* the url and platform it was called with.
C3_PlaceholderWhenAllFail ==
    /\ ( /\ Len(ex_calls) = Len(methods)
         /\ \A j \in 1..Len(ex_calls) : ex_calls[j].outcome = "raised" )
       => ex_pc \in {"Trying", "AllFailed"}
    /\ ex_pc = "AllFailed" =>
         /\ Len(ex_calls) = Len(methods)
         /\ \A j \in 1..Len(ex_calls) : ex_calls[j].outcome = "raised"
         /\ ex_ret.media_items = <<>>
         /\ ex_ret.method_used = "none"
         /\ ex_ret.caption = "Could not extract media from this link."
         /\ ex_ret.caption # ""
         /\ ex_ret.original_url = ex_url
         /\ ex_ret.platform = ex_platform

C3_Witness ==
    /\ ex_pc = "AllFailed"
    /\ ex_url = "u2"
    /\ ex_platform = "tiktok"
    /\ ex_calls[3].value = "NotImplementedError"

\* C4: whatever the methods return or raise, no error escapes extract, and a
\* finished call has returned a ScrapedMedia.
C4_NeverRaises ==
    /\ ex_pc # "Raised"
    /\ ex_exc = None
    /\ ex_pc \in {"NotStarted", "Trying", "Succeeded", "AllFailed"}
    /\ ex_pc \in {"Succeeded", "AllFailed"} =>
         /\ DOMAIN ex_ret = {"platform", "original_url", "author", "caption",
                             "media_items", "method_used", "referenced_post",
                             "reference_type"}
         /\ ex_ret.original_url = ex_url
    /\ (ex_pc = "Trying" /\ ex_running = None) => ex_i \in 1..(Len(methods) + 1)

C4_Witness ==
    /\ ex_pc = "AllFailed"
    /\ \E j \in 1..Len(ex_calls) : ex_calls[j].value = "TimeoutError"
    /\ \E j \in 1..Len(ex_calls) : ex_calls[j].value = "RuntimeError"

(***************************************************************************)
(* Properties of MediaCache                                                *)
(***************************************************************************)
\* This step is a call of get(u).
GetStep(u) == cache_last'.op = "get" /\ cache_last'.url = u /\ now' = now

\* C5: a get of a stored url returns the stored result while
\* now - created_at <= ttl, which right after put(url, r) is r itself; when
\* now - created_at > ttl it returns None and the entry is gone from the
\* store, so that a later get finds nothing.
C5_RoundTrip ==
    [][ \A u \in Urls :
          GetStep(u) =>
            /\ u \notin Keys(store) => cache_last'.result = <<>>
            /\ u \in Keys(store) =>
                 LET entry == Lookup(store, u) IN
                 /\ now - entry.created_at <= cache_ttl =>
                      /\ cache_last'.result = <<entry.result>>
                      /\ AfterPut(u) => cache_last'.result = cache_last.result
                      /\ store' = store
                 /\ now - entry.created_at > cache_ttl =>
                      /\ cache_last'.result = <<>>
                      /\ u \notin Keys(store')
      ]_vars

C5_Witness ==
    /\ cache_last.op = "get"
    /\ cache_last.after_put
    /\ cache_last.expired
    /\ cache_last.result = <<>>
    /\ cache_ttl >= 1

\* C6: a cache of capacity N >= 1 never holds more than N entries.
C6_SizeBounded ==
    cache_max >= 1 =>
        /\ Len(store) <= cache_max
        /\ Cardinality(Keys(store)) = Len(store)

C6_Witness ==
    /\ cache_max >= 1
    /\ Len(store) = cache_max
    /\ Len(cache_puts) > cache_max

\* The last n elements of sequence s, as a set.
LastN(s, n) == {s[i] : i \in (Len(s) - n + 1)..Len(s)}

Min(a, b) == IF a <= b THEN a ELSE b

\* C7: with capacity N >= 1, after puts of k distinct keys and no entry dropped
\* for its age, the store holds exactly the min(k, N) keys put last, whatever
\* gets came in between; and a get that expires nothing leaves the store, and
\* with it the entry evicted next, as it was.
C7_InsertionOrderEviction ==
    /\ [](cache_max >= 1 /\ ~IsVoid(cache_puts) =>
            Keys(store) = LastN(cache_puts, Min(Len(cache_puts), cache_max)))
    /\ [][ \A u \in Urls :
             (GetStep(u) /\ ~cache_last'.expired) => store' = store ]_vars

C7_Witness ==
    /\ cache_max >= 1
    /\ ~IsVoid(cache_puts)
    /\ Len(cache_puts) = cache_max + 2
    /\ cache_last.op = "get"
    /\ cache_last.result # <<>>
    /\ Len(store) = cache_max

(***************************************************************************)
(* Properties of RateLimitMiddleware                                       *)
(***************************************************************************)
\* The calls before call j that came from the same user.
EarlierCalls(j) == {i \in 1..(j - 1) : rl_log[i].user = rl_log[j].user}

\* C8: a call with fewer than M calls of its user less than W before it is
\* allowed; a call with M allowed calls of its user less than W before it is
\* denied; a call made when every earlier call of its user is at least W old
\* is allowed.
C8_WindowLimit ==
    \A j \in 1..Len(rl_log) :
        LET recent == {i \in EarlierCalls(j) : rl_log[j].t - rl_log[i].t < rl_window} IN
        /\ Cardinality(recent) < rl_max => rl_log[j].allowed
        /\ Cardinality({i \in recent : rl_log[i].allowed}) >= rl_max => ~rl_log[j].allowed
        /\ (\A i \in EarlierCalls(j) : rl_log[j].t - rl_log[i].t >= rl_window)
              => rl_log[j].allowed

C8_Witness ==
    \E k \in 1..Len(rl_log) : \E j \in EarlierCalls(k) :
        /\ ~rl_log[j].allowed
        /\ Cardinality({i \in EarlierCalls(j) : rl_log[i].allowed}) = rl_max
        /\ rl_max >= 2
        /\ rl_log[k].allowed
        /\ rl_log[k].t - rl_log[j].t = rl_window

\* This step is a call of the middleware; CallMade is its record.
CallStep == Len(rl_log') = Len(rl_log) + 1

CallMade == rl_log'[Len(rl_log')]

\* How often x occurs in sequence s.
Count(s, x) == Cardinality({i \in 1..Len(s) : s[i] = x})

\* Whether a call at time t would be allowed with timestamps ts recorded.
AllowedAt(ts, t) == Cardinality({i \in 1..Len(ts) : t - ts[i] < rl_window}) < rl_max

\* C9: a denied call adds no timestamp for its user, leaves every other user's
\* timestamps as they were, and does not change the times from which the user
\* is allowed again.
C9_DeniedNotRecorded ==
    [][ (CallStep /\ ~CallMade.allowed) =>
          LET u == CallMade.user IN
          /\ \A v \in Users \ {u} : requests'[v] = requests[v]
          /\ Len(requests'[u]) <= Len(requests[u])
          /\ \A x \in 0..MaxTime : Count(requests'[u], x) <= Count(requests[u], x)
          /\ \A t \in now..(MaxTime + MaxWindow) :
                AllowedAt(requests'[u], t) = AllowedAt(requests[u], t)
      ]_vars

C9_Witness ==
    \E k \in 1..Len(rl_log) : \E j \in EarlierCalls(k) : \E i \in EarlierCalls(j) :
        /\ ~rl_log[i].allowed
        /\ ~rl_log[j].allowed
        /\ rl_log[k].allowed
        /\ \E v \in Users : v # rl_log[k].user /\ requests[v] # <<>>

\* The timestamps of ts within [t - window, t], and those within (t - window, t].
WithinClosed(ts, t) == SelectSeq(ts, LAMBDA x : t - rl_window <= x /\ x <= t)

WithinHalfOpen(ts, t) == SelectSeq(ts, LAMBDA x : t - rl_window < x /\ x <= t)

\* C10 (as stated): a call at time now retains exactly the user's timestamps t
\* with now - window <= t <= now, and now itself when it is allowed.
C10_RetainsClosedWindow ==
    [][ CallStep =>
          LET u    == CallMade.user
              kept == WithinClosed(requests[u], now)
          IN  requests'[u] = IF CallMade.allowed THEN Append(kept, now) ELSE kept
      ]_vars

\* C10 (amended): a call at time now retains exactly the user's timestamps t
\* with now - window < t <= now, and now itself when it is allowed: a
\* timestamp exactly window old is dropped and no longer counts.
C10_RetainsHalfOpenWindow ==
    [][ CallStep =>
          LET u    == CallMade.user
              kept == WithinHalfOpen(requests[u], now)
          IN  /\ requests'[u] = IF CallMade.allowed THEN Append(kept, now) ELSE kept
              /\ CallMade.allowed = (Len(kept) < rl_max)
      ]_vars

C10_Witness ==
    \E j \in 1..Len(rl_log) :
        /\ rl_log[j].allowed
        /\ Cardinality({i \in EarlierCalls(j) :
               rl_log[i].allowed /\ rl_log[j].t - rl_log[i].t = rl_window}) = rl_max
        /\ requests[rl_log[j].user] = <<rl_log[j].t>>

(***************************************************************************)
(* Properties of download_media                                            *)
(***************************************************************************)
\* C11: the item fetches in flight, summed over all the download calls in
\* progress, never exceed the configured settings.concurrent_downloads.
C11_GlobalDownloadBound == InFlight <= dl_limit

\* The items of a call whose fetch raised nothing and read a body of at most
\* _MAX_BYTES bytes.
Fetched(c) ==
    {i \in 1..Len(dl_items[c]) :
        /\ dl_items[c][i].outcome \notin FetchErrors
        /\ dl_items[c][i].read >= 0
        /\ dl_items[c][i].read <= _MAX_BYTES}

\* The k-th smallest element of a set of indices.
Nth(S, k) == CHOOSE i \in S : Cardinality({j \in S : j <= i}) = k

\* C12: a download call returns exactly the items whose fetch completed
\* without error and within the size ceiling, each with its data set, in the
\* order of the input; every other item is absent, and every item was fetched
\* once only.
C12_ReturnsFetchedInOrder ==
    \A c \in Calls :
        dl_pc[c] = "returned" =>
            /\ Len(dl_ret[c]) = Cardinality(Fetched(c))
            /\ \A k \in 1..Len(dl_ret[c]) :
                   LET i == Nth(Fetched(c), k)
                   IN  /\ dl_ret[c][k].url = UnresolvedItem(i).url
                       /\ dl_ret[c][k].media_type = UnresolvedItem(i).media_type
                       /\ dl_ret[c][k].data \in Bodies
                       /\ SizeOf(dl_ret[c][k].data) = dl_items[c][i].read
            /\ \A i \in 1..Len(dl_items[c]) : dl_items[c][i].tries = 1

\* A call with three items has returned the first and the third: the second
\* failed, or was over the ceiling.
C12_Witness ==
    \E c \in Calls :
        /\ dl_pc[c] = "returned"
        /\ Len(dl_items[c]) = 3
        /\ dl_items[c][2].outcome \in FetchErrors \cup {"too_large"}
        /\ Len(dl_ret[c]) = 2
        /\ dl_ret[c][1].url = UnresolvedItem(1).url
        /\ dl_ret[c][2].url = UnresolvedItem(3).url

(***************************************************************************)
(* Properties of the handler: _send_result and _send_single_result         *)
(***************************************************************************)
\* The result a step of the log was called with.
ResultOf(e) ==
    IF e.role = "reference" THEN h_result[1].referenced_post[1] ELSE h_result[1]

\* Every item of the step's result was handed to the downloader and every
\* fetch failed: it raised, or its body was over the ceiling.
EveryItemFailed(e) ==
    /\ e.download_called
    /\ Len(e.submitted) = Len(ResultOf(e).media_items)
    /\ \A i \in 1..Len(e.fetched) :
           e.fetched[i] \in FetchErrors \/ SizeOf(e.fetched[i]) > _MAX_BYTES

\* C13: no failure of a fetch leaves the download; when every item of a
\* result fails, the result is answered by exactly one call of the sink, the
\* text "Could not download media from this link.", with no media.
C13_AllFailedOneNotice ==
    /\ h_exc # "FetchError"
    /\ \A k \in 1..Len(h_log) :
           /\ h_log[k].call # <<>>
           /\ \A j \in 1..Len(h_log) : h_log[j].role = h_log[k].role => j = k
           /\ EveryItemFailed(h_log[k]) =>
                  /\ h_log[k].call[1].method = "reply"
                  /\ h_log[k].call[1].media = <<>>
                  /\ h_log[k].call[1].text[1].parts =
                         << <<"str", "Could not download media from this link.">> >>
                  /\ h_log[k].downloaded = <<>>

\* Both items of a result failed, one by an error and one by its size, and
\* the notice was sent.
C13_Witness ==
    \E k \in 1..Len(h_log) :
        /\ EveryItemFailed(h_log[k])
        /\ Len(h_log[k].submitted) = 2
        /\ h_log[k].fetched[1] \in FetchErrors
        /\ h_log[k].fetched[2] = "body_over_limit"
        /\ h_log[k].answer = "sent"

\* The items of a result whose data is present, in order.
Prepopulated(result) == SelectSeq(result.media_items, LAMBDA item : item.data # None)

ReferenceDelivered ==
    /\ Len(h_log) >= 1
    /\ h_log[1].role = "reference"
    /\ h_log[1].answer = "sent"
    /\ h_log[1].call[1] # CouldNotDownloadCall

\* C15: for a result with a referenced post, the reference is delivered
\* first and the primary second, and the primary replies to the message just
\* sent for the reference, whatever the numbers of items of the two.
C15_PrimaryRepliesToReference ==
    (ReferenceDelivered /\ Len(h_log) = 2) =>
        /\ h_log[2].role = "primary"
        /\ ReplyTarget(h_log[2].call[1]) = h_log[1].id

\* C16: without a referenced post, or when sending the reference fails, the
\* primary is still delivered, as a reply to the message being handled.
C16_PrimaryDeliveredAnyway ==
    /\ (h_pc = "raised" /\ h_log # <<>>) => h_log[Len(h_log)].role = "primary"
    /\ \A k \in 1..Len(h_log) :
           (h_log[k].role = "primary" /\ (k = 1 \/ h_log[1].returned = <<>>)) =>
               ReplyTarget(h_log[k].call[1]) = TriggerId

\* The number of resolved items of a step: the items of its result whose
\* data was present, and those whose fetch read a body within the ceiling.
ResolvedCount(e) ==
    Len(Prepopulated(ResultOf(e)))
        + Cardinality({i \in 1..Len(e.fetched) :
                          e.fetched[i] \in Bodies /\ SizeOf(e.fetched[i]) <= _MAX_BYTES})

\* The call is one text message of the result's author and caption, cut to
\* the limit of a text.
IsTextDelivery(call, result) ==
    /\ call.method = "reply"
    /\ call.media = <<>>
    /\ call.text[1].parts = format_text_post(result).parts
    /\ call.text[1].len <= TextLimit
    /\ call.text[1].kept = IF format_text_post(result).len <= TextLimit
                           THEN format_text_post(result).len ELSE TextLimit - 3

\* A caption of the result, cut to the limit of a caption.
IsCaption(caption, result) ==
    /\ caption # <<>>
    /\ caption[1].parts = format_caption(result).parts
    /\ caption[1].len <= CaptionLimit
    /\ caption[1].kept = IF format_caption(result).len <= CaptionLimit
                         THEN format_caption(result).len ELSE CaptionLimit - 3

\* The call is one image or video with the caption and the spoiler flag.
IsSingleDelivery(call, e) ==
    /\ call.method = (IF e.downloaded[1].media_type = "video"
                      THEN "reply_video" ELSE "reply_photo")
    /\ call.text = <<>>
    /\ Len(call.media) = 1
    /\ call.media[1].item = e.downloaded[1]
    /\ IsCaption(call.media[1].caption, ResultOf(e))
    /\ call.media[1].has_spoiler = e.has_spoiler

\* The call is one group of the first min(n, MaxGroup) resolved items, the
\* caption on the first item only.
IsGroupDelivery(call, e, n) ==
    /\ call.method = "reply_media_group"
    /\ call.text = <<>>
    /\ Len(call.media) = (IF n < MaxGroup THEN n ELSE MaxGroup)
    /\ \A i \in 1..Len(call.media) :
           /\ call.media[i].item = e.downloaded[i]
           /\ call.media[i].has_spoiler = e.has_spoiler
           /\ IF i = 1 THEN IsCaption(call.media[i].caption, ResultOf(e))
              ELSE call.media[i].caption = <<>>

\* The result of the link has no referenced post and its step is logged.
PrimaryAlone ==
    /\ h_result # <<>>
    /\ h_result[1].referenced_post = <<>>
    /\ h_log # <<>>

\* C17 as claimed: a result without a referenced post yields exactly one
\* delivery whose shape depends only on the number n of resolved items: a
\* text of author and caption for n = 0, one image or video for n = 1, one
\* group of the first min(n, 10) items for n >= 2.
C17_ShapeByCountOnly ==
    PrimaryAlone =>
        /\ Len(h_log) = 1
        /\ LET e == h_log[1]
               n == ResolvedCount(e)
           IN  /\ n = 0 => IsTextDelivery(e.call[1], h_result[1])
               /\ n = 1 => IsSingleDelivery(e.call[1], e)
               /\ n >= 2 => IsGroupDelivery(e.call[1], e, n)

\* C17, amended: as claimed, but for n = 0 the delivery is the text of author
\* and caption only when the result has no items; when it has items and none
\* was resolved, the delivery is the notice of the failed download.
C17_ShapeByCountAndItems ==
    PrimaryAlone =>
        /\ Len(h_log) = 1
        /\ LET e == h_log[1]
               n == ResolvedCount(e)
           IN  /\ ~has_media(h_result[1]) => IsTextDelivery(e.call[1], h_result[1])
               /\ (has_media(h_result[1]) /\ n = 0) => e.call[1] = CouldNotDownloadCall
               /\ n = 1 => IsSingleDelivery(e.call[1], e)
               /\ n >= 2 => IsGroupDelivery(e.call[1], e, n)
               /\ ReplyTarget(e.call[1]) = TriggerId

\* A result of MaxGroup + 1 items, of which all were resolved, was delivered
\* as one group of MaxGroup items, with a caption that had to be cut.
C17_Witness ==
    /\ PrimaryAlone
    /\ ResolvedCount(h_log[1]) = MaxGroup + 1
    /\ h_log[1].fetched # <<>>
    /\ Len(h_log[1].call[1].media) = MaxGroup
    /\ h_log[1].call[1].media[1].caption[1].kept = CaptionLimit - 3
    /\ h_log[1].answer = "sent"

\* C18: a url handled again while its cache entry would still be live (no
\* more than cache_ttl after it was first handled) is served from the cache:
\* extract is not run for it again.
C18_RepeatServedFromCache ==
    \A i \in 1..Len(h_extracts) :
        (h_extracts[i] \in h_prev /\ now <= cache_ttl) => FALSE

(***************************************************************************)
(* Properties of RateLimitMiddleware as the gate of the handler            *)
(***************************************************************************)
\* The messages of the user already counted in the window when call j is
\* made: the allowed earlier calls that are less than rl_window old.
CountedBefore(j) ==
    Cardinality({i \in 1..j - 1 :
                    /\ rl_log[i].user = rl_log[j].user
                    /\ rl_log[i].allowed
                    /\ rl_log[j].t - rl_log[i].t < rl_window})

\* C19: a message the limiter denies (its user already has rl_max messages
\* in the window) never reaches the handler, so nothing is extracted,
\* downloaded or sent for it; a message it allows reaches the handler
\* exactly once.
C19_LimiterGatesHandler ==
    \A j \in 1..Len(rl_log) :
        /\ CountedBefore(j) >= rl_max => rl_log[j].handled = 0
        /\ CountedBefore(j) < rl_max => rl_log[j].handled = 1

\* A user's message was allowed and handled, and a later one of the same
\* user was denied and not handled.
C19_Witness ==
    \E i, j \in 1..Len(rl_log) :
        /\ i < j
        /\ rl_log[i].user = rl_log[j].user
        /\ rl_log[i].allowed /\ rl_log[i].handled = 1
        /\ ~rl_log[j].allowed /\ rl_log[j].handled = 0

(***************************************************************************)
(* Properties of detect_links                                              *)
(***************************************************************************)
\* The word with the parameters left out that the platform's cleaning
\* leaves out: all of them for tiktok (and for twitter, whose pattern ends
\* before them), the tracking parameters for reddit.
WithoutStripped(word) ==
    IF PlatformOf(word) = "reddit"
    THEN SelectSeq(word, LAMBDA tok : tok[1] # "param" \/ KeptKey(tok[2]))
    ELSE PathOf(word)

\* Two occurrences of a platform's url differ only in stripped tracking
\* parameters, or only in trailing punctuation.
SameUrl(w1, w2) ==
    /\ PlatformOf(w1) # None
    /\ PlatformOf(w1) = PlatformOf(w2)
    /\ \/ WithoutStripped(w1) = WithoutStripped(w2)
       \/ rstrip(w1) = rstrip(w2)

\* The links returned for the word: those with the url recorded for it.
LinksOf(word) ==
    {k \in 1..Len(det_links) :
        det_links[k].url = Normalized(word, PlatformOf(word))}

\* C20: detect_links never returns two links with the same url; occurrences
\* of one url, also when they differ only in stripped tracking parameters or
\* in trailing punctuation, yield exactly one link; a text without a
\* supported url yields the empty list.
C20_OneLinkPerUrl ==
    det_pc = "done" =>
        /\ \A i, j \in 1..Len(det_links) :
               det_links[i].url = det_links[j].url => i = j
        /\ \A i, j \in 1..Len(det_text) :
               SameUrl(det_text[i], det_text[j]) =>
                   Cardinality(LinksOf(det_text[i]) \cup LinksOf(det_text[j])) = 1
        /\ (\A i \in 1..Len(det_text) : PlatformOf(det_text[i]) = None) =>
               det_links = <<>>

\* The query parameters of a url, each as its key and its value.
ParamsOf(url) ==
    {<<url[i][2], url[i][3]>> : i \in {j \in 1..Len(url) : url[j][1] = "param"}}

\* C21: detect_links called on the url of a link it returned gives exactly
\* that link again, with the same url and platform; and the url recorded for
\* an occurrence of a reddit url is the occurrence (less its trailing
\* punctuation) without its denylisted parameters and with every other
\* parameter.
C21_IdempotentOnOutput ==
    /\ det_of # <<>> =>
           det_links = <<DetectedLink(det_of[1].url, det_of[1].platform, FALSE)>>
    /\ (det_pc = "done" /\ det_of = <<>>) =>
           \A i \in 1..Len(det_text) :
               PlatformOf(det_text[i]) = "reddit" =>
                   \E k \in 1..Len(det_links) :
                       /\ det_links[k].platform = "reddit"
                       /\ PathOf(det_links[k].url) = PathOf(rstrip(det_text[i]))
                       /\ ParamsOf(det_links[k].url) =
                              {p \in ParamsOf(rstrip(det_text[i])) : KeptKey(p[1])}

(***************************************************************************)
(* Behaviour of BaseScraper.extract                                        *)
(***************************************************************************)
\* The order of the chain, as the claim names it.
ChainOrder == <<"primary", "yt-dlp", "browser">>

\* The methods invoked so far are the first ones of the chain, each once, and
\* every one before the last invoked has raised; a method is awaited only
\* when all the methods invoked before it have ended.
InvokedInOrder ==
    /\ Len(Invoked) <= 3
    /\ \A j \in 1..Len(Invoked) : Invoked[j] = ChainOrder[j]
    /\ \A j \in 1..(Len(Invoked) - 1) : ex_calls[j].outcome = "raised"
    /\ ex_running # None => ex_running = ChainOrder[Len(ex_calls) + 1]
    /\ ex_pc \in {"Succeeded", "AllFailed"} => ex_running = None
    /\ ex_pc = "Succeeded" => ex_calls[Len(ex_calls)].outcome = "returned"
    /\ ex_pc = "AllFailed" => Len(ex_calls) = 3

\* The steps a call in progress has left at most: two for each method still
\* to be tried (invoke it, wait for it), less the invocation already made.
StepsLeft == 2 * (Len(ChainOrder) + 1 - ex_i) + (IF ex_running = None THEN 1 ELSE 0)

\* C22: within one call of extract the methods are invoked in the order
\* primary, yt-dlp, browser, each at most once and one at a time, a method
\* only after the one before it has failed; and the call ends, Succeeded or
\* AllFailed, after at most 3 invocations when every invoked method ends: a
\* call in progress can always take a step (invoke the next method, take
\* the awaited method's outcome, or return the placeholder), and each of its
\* steps ends it or leaves it fewer steps to take.
C22_OrderedChainTerminates ==
    /\ []InvokedInOrder
    /\ [](ex_pc = "Trying" =>
            /\ StepsLeft >= 0
            /\ IF ex_running # None THEN ENABLED MethodEnds
               ELSE ENABLED (InvokeMethod \/ AllMethodsFailed))
    /\ [][ex_pc = "Trying" =>
            \/ ex_pc' \in {"Succeeded", "AllFailed"}
            \/ ex_pc' = "Trying" /\ StepsLeft' < StepsLeft]_ex_position

\* The call succeeded with its third method, after an error and a timeout.
C22_Witness ==
    /\ ex_pc = "Succeeded"
    /\ Invoked = ChainOrder
    /\ ex_calls[1].value = "RuntimeError"
    /\ ex_calls[2].value = "TimeoutError"

(***************************************************************************)
(* Behaviour of MediaCache.put                                             *)
(***************************************************************************)
\* This step is a call of put that returned; it put PutUrl.
PutReturns == Len(cache_puts') = Len(cache_puts) + 1

PutUrl == cache_last'.url

\* The entries of the store that are not expired when _evict reads the
\* clock.
Unexpired(s, t) == SelectSeq(s, LAMBDA e : t - e.created_at <= cache_ttl)

\* C23: put purges every expired entry before it trims to the capacity: once
\* put has returned, the store holds the new entry and, besides it, only
\* entries that were unexpired when put read the clock; and an unexpired
\* entry of another key is gone only if the unexpired entries alone were
\* at least cache_max.
C23_PurgeBeforeTrim ==
    [][ PutReturns =>
          LET live == Unexpired(store, now) IN
          /\ \A i \in 1..Len(store') :
                 IF store'[i].key = PutUrl
                 THEN /\ store'[i].created_at = now'
                      /\ <<store'[i].result>> = cache_last'.result
                 ELSE /\ now - store'[i].created_at <= cache_ttl
                      /\ \E j \in 1..Len(store) : store[j] = store'[i]
          /\ PutUrl \in Keys(store')
          /\ \A j \in 1..Len(live) :
                 (live[j].key # PutUrl /\ live[j].key \notin Keys(store'))
                     => Len(live) >= cache_max
      ]_<<store, cache_puts, cache_last.url>>

\* A put purged an expired entry and kept the unexpired one: the capacity is
\* 2 and the store holds the kept entry and the new one.
C23_Witness ==
    /\ cache_last.op = "put"
    /\ cache_last.expired
    /\ cache_last.raised = None
    /\ cache_max = 2
    /\ Len(store) = 2
    /\ store[1].created_at < store[2].created_at

(***************************************************************************)
(* Behaviour of download_media                                             *)
(***************************************************************************)
\* The call has been left: it returned, or an exception or a cancellation
\* left it.
Left(c) == dl_pc[c] \in {"returned", "raised", "cancelled"}

AllowedWithin(j) ==
    {i \in 1..j : /\ rl_log[i].user = rl_log[j].user
                  /\ rl_log[i].allowed
                  /\ rl_log[j].t - rl_log[i].t < rl_window}

\* The calls of user_id whose handler is suspended and whose message is
\* less than rl_window old.
SuspendedInWindow(user_id) ==
    {j \in rl_active : /\ rl_log[j].user = user_id
                       /\ now - rl_log[j].t < rl_window}

\* A message arrives: __call__ runs up to its await.
MessageArrives == Len(rl_log') = Len(rl_log) + 1

\* C25: however the suspended handlers and the arriving messages interleave,
\* no user has rl_max + 1 allowed messages whose timestamps all lie less
\* than rl_window apart; a message that arrives while handlers of its user
\* are suspended finds their messages recorded, so it is denied when they
\* fill the window, and it is denied when a suspended handler's message took
\* the last free slot and nothing counted then has left the window; a
\* handler's return changes nothing the limiter reads.
C25_AtomicUnderInterleaving ==
    /\ [](\A j \in 1..Len(rl_log) :
             rl_log[j].allowed => Cardinality(AllowedWithin(j)) <= rl_max)
    /\ [][MessageArrives =>
            LET call == rl_log'[Len(rl_log')] IN
            /\ \A j \in SuspendedInWindow(call.user) :
                   \E k \in 1..Len(requests'[call.user]) :
                       requests'[call.user][k] = rl_log[j].t
            /\ Cardinality(SuspendedInWindow(call.user)) >= rl_max => ~call.allowed
            /\ \A j \in SuspendedInWindow(call.user) :
                   (/\ CountedBefore(j) = rl_max - 1
                    /\ \A i \in AllowedWithin(j) : now - rl_log[i].t < rl_window)
                       => ~call.allowed]_rl_vars
    /\ [][rl_active' # rl_active /\ ~MessageArrives
            => requests' = requests /\ rl_log' = rl_log]_rl_vars

\* Two messages of one user were allowed and their handlers are both
\* suspended, the later one having taken the last of rl_max >= 2 slots, and
\* a third message of that user, arrived meanwhile, was denied.
C25_Witness ==
    /\ rl_max >= 2
    /\ \E i, j \in rl_active : \E k \in 1..Len(rl_log) :
          /\ i < j /\ j < k
          /\ rl_log[i].user = rl_log[j].user
          /\ rl_log[k].user = rl_log[j].user
          /\ CountedBefore(j) = rl_max - 1
          /\ ~rl_log[k].allowed
          /\ rl_log[k].t - rl_log[i].t < rl_window


(***************************************************************************)
(* Order of the items _send_single_result delivers                        *)
(***************************************************************************)
\* The place of the item with this url in result.media_items.
PlaceIn(items, url) == CHOOSE i \in 1..Len(items) : items[i].url = url

\* C26: the items of a delivery stand in the order they have in
\* result.media_items, and the item that carries the caption is the one of
\* the delivered items that comes first in result.media_items.
C26_DeliveryKeepsOrder ==
    \A k \in 1..Len(h_log) :
        LET e == h_log[k]
            items == ResultOf(e).media_items
        IN  (e.call # <<>> /\ e.call[1].media # <<>>) =>
                LET media == e.call[1].media IN
                /\ \A i, j \in 1..Len(media) :
                       i < j => PlaceIn(items, media[i].item.url)
                                   < PlaceIn(items, media[j].item.url)
                /\ \A i, j \in 1..Len(media) :
                       media[i].caption # <<>> =>
                           PlaceIn(items, media[i].item.url)
                               <= PlaceIn(items, media[j].item.url)

(***************************************************************************)
(* Containment of failures in handle_media_link                           *)
(***************************************************************************)
\* handle_media_link has been left, by its return or by an exception.
HandlingOver == h_pc \in {"idle", "raised"} /\ h_extracts # <<>>

\* C27: when the handling of a message is over, every detected link of the
\* message has been extracted, whatever failed for the links before it: no
\* link is left that extract was never called for.
C27_FailuresContainedPerLink ==
    HandlingOver =>
        \A i \in 1..Len(h_links) :
            \E j \in 1..Len(h_extracts) : h_extracts[j] = h_links[i].url

(***************************************************************************)
(* MediaCache.put of a key that is stored, in a full store                 *)
(***************************************************************************)
\* C28: put(url, r) for a url that is stored and unexpired, in a store of
\* exactly cache_max entries, all unexpired, deletes the entry with the
\* smallest created_at before it inserts.  When that entry is of another
\* key, the key is gone after the put although it was unexpired, url keeps
\* its place with the new entry, and the store holds cache_max - 1 entries;
\* when it is the entry of url itself, the store holds cache_max entries
\* again.
C28_OverwriteEvictsOldest ==
    [][ (/\ PutReturns
         /\ Len(store) = cache_max
         /\ Unexpired(store, now) = store
         /\ PutUrl \in Keys(store)) =>
          LET oldest == OldestKey(store) IN
          /\ \A j \in 1..Len(store) :
                 store[j].created_at >= Lookup(store, oldest).created_at
          /\ cache_last'.trimmed = {oldest}
          /\ Lookup(store', PutUrl).created_at = now'
          /\ IF oldest = PutUrl
             THEN /\ Keys(store') = Keys(store)
                  /\ Len(store') = cache_max
             ELSE /\ Keys(store') = Keys(store) \ {oldest}
                  /\ Len(store') = cache_max - 1
      ]_<<store, cache_puts, cache_last.url, cache_last.trimmed>>

\* A put of a stored key into a full store of two unexpired entries deleted
\* the entry of the other key: one entry is left.
C28_Witness ==
    /\ cache_last.op = "put"
    /\ cache_last.raised = None
    /\ ~cache_last.expired
    /\ cache_max = 2
    /\ Len(store) = 1
    /\ cache_last.trimmed # {}
    /\ cache_last.url \notin cache_last.trimmed

(***************************************************************************)
(* Termination of MediaCache.put without error                             *)
(***************************************************************************)
\* C29: for every capacity, 0 included, and every store, a put ends without
\* an exception and url is stored when it has ended: the loop of _evict
\* never asks an empty store for its oldest entry.
C29_PutNeverRaises ==
    cache_last.op = "put" =>
        /\ cache_last.raised = None
        /\ cache_last.url \in Keys(store)

(***************************************************************************)
(* A method that returns a result without items                            *)
(***************************************************************************)
\* C30: a method that returns a result with no items has succeeded: extract
\* returns that result, stamped with the method's name, and invokes no
\* method after it; the result whose method_used is "none" is returned only
\* when every method of the chain raised.
C30_EmptyResultIsSuccess ==
    /\ \A j \in 1..Len(ex_calls) :
          (ex_calls[j].outcome = "returned" /\ ex_calls[j].value.media_items = <<>>) =>
              /\ ex_pc = "Succeeded"
              /\ j = Len(ex_calls)
              /\ ex_running = None
              /\ ex_ret = Stamp(ex_calls[j].value, ex_calls[j].name)
              /\ ex_ret.media_items = <<>>
              /\ ex_ret.method_used = methods[j]
    /\ ex_pc \in {"Succeeded", "AllFailed"} =>
          (ex_ret.method_used = "none" <=>
              /\ Len(ex_calls) = Len(methods)
              /\ \A j \in 1..Len(ex_calls) : ex_calls[j].outcome = "raised")

\* The first method raised and the second returned a result without items:
\* extract returned it as the result of "yt-dlp", the third method not
\* invoked.
C30_Witness ==
    /\ ex_pc = "Succeeded"
    /\ Len(ex_calls) = 2
    /\ ex_calls[1].outcome = "raised"
    /\ ex_calls[2].value.media_items = <<>>
    /\ ex_ret.media_items = <<>>
    /\ ex_ret.method_used = "yt-dlp"

====
